---- MODULE Spec2Model ----
(***************************************************************************)
(* SEC filing aggregation pipeline: the three programs of the repository.  *)
(*   project.py         daily-index scraper (day loop, line parsing)       *)
(*   app.py             query-API scraper (page loop, metadata resolver,   *)
(*                      primary-document resolver)                         *)
(*   project_reader.py  document-link resolver over a spreadsheet of rows  *)
(*                                                                         *)
(* A Python string is a sequence of atoms.  An atom is one character, or   *)
(* an indivisible literal of the program ("https://www.sec.gov", ".txt")   *)
(* that no input splits.  Python's None is the model value None.           *)
(***************************************************************************)
EXTENDS Integers, Sequences, FiniteSets, TLC

VARIABLES
    pc,             \* position of the running script
    net,            \* outbound requests and sleeps, in program order
    all_filings,    \* project.py:84 / app.py:416, the output table
    filing_type,    \* project.py:22, the selected form type
    ndays,          \* project.py:88, len(date_range)
    day,            \* project.py:90, index of the day being fetched
    cik_to_ticker,  \* project.py:85
    content,        \* project.py:96, the last index document fetched
    raws,           \* project.py:113, the 5-tuples unpacked from content
    user,           \* app.py:118, st.session_state.user
    selection,      \* app.py:185, 199: selected_options and custom_type
    show_details,   \* app.py:204
    filing_types,   \* app.py:406
    company_cache,  \* app.py:230, client.company_cache
    page,           \* app.py:417
    result,         \* app.py:441, what the last search returned
    hits,           \* app.py:446, the hits of the page not yet processed
    last_data,      \* app.py:258, data: the JSON of the last metadata request
    details,        \* app.py:462, what get_company_details last returned
    file_type,      \* project_reader.py:135
    df,             \* project_reader.py:140, the rows of the input sheet
    row_i,          \* project_reader.py:154, the row being processed
    results,        \* project_reader.py:152
    served_rows,    \* app.py:353, what soup.select('table.tableFile tr') gives
    served_links,   \* project_reader.py:90, what soup.find_all('a', href=True) gives
    wanted,         \* app.py:339 form_type, project_reader.py:53 file_type
    resolved        \* what the resolver returned

idxVars == <<filing_type, ndays, day, cik_to_ticker, content, raws>>
appVars == <<user, selection, show_details, filing_types, company_cache, page,
             result, hits, last_data, details>>
rdrVars == <<file_type, df, row_i, results>>
docVars == <<served_rows, served_links, wanted, resolved>>
vars == <<pc, net, all_filings, idxVars, appVars, rdrVars, docVars>>

\* Python's None and a key a JSON object does not have: one-atom strings no
\* input contains
None == <<"<None>">>
Absent == <<"<absent>">>

\* ------------------------------------------------------------------ bounds
MaxLines == 3       \* data lines of one index document (pure-function runs)
MaxDays == 3        \* days of a date range
MaxPages == 2       \* result pages the search serves before the model stops
MaxRows == 3        \* rows of the input sheet of project_reader.py
MaxDocRows == 3     \* document rows of a filing index page (resolver runs)
MaxLinks == 3       \* hyperlinks of a filing index page (resolver runs)

\* ------------------------------------------------------- Python str methods
\* str.upper, on the letters the inputs use
UpperChar(c) ==
    CASE c = "k" -> "K"
      [] c = ".htm" -> ".HTM"
      [] c = "q" -> "Q"
      [] c = "d" -> "D"
      [] c = "e" -> "E"
      [] c = "z" -> "Z"
      [] OTHER -> c

\* str.lower, on the letters the inputs use
LowerChar(c) ==
    CASE c = "K" -> "k"
      [] c = ".HTM" -> ".htm"
      [] c = "Q" -> "q"
      [] c = "D" -> "d"
      [] c = "E" -> "e"
      [] c = "Z" -> "z"
      [] OTHER -> c

Upper(s) == [i \in 1..Len(s) |-> UpperChar(s[i])]

Lower(s) == [i \in 1..Len(s) |-> LowerChar(s[i])]

IsSpace(c) == c = " "

RECURSIVE LStrip(_)
LStrip(s) ==
    IF s # <<>> /\ IsSpace(Head(s)) THEN LStrip(Tail(s)) ELSE s

RECURSIVE RStrip(_)
RStrip(s) ==
    IF s # <<>> /\ IsSpace(s[Len(s)]) THEN RStrip(SubSeq(s, 1, Len(s) - 1)) ELSE s

\* str.strip()
Strip(s) == RStrip(LStrip(s))

\* str.startswith(p)
StartsWith(s, p) == Len(p) <= Len(s) /\ SubSeq(s, 1, Len(p)) = p

\* str.endswith(p)
EndsWith(s, p) == Len(p) <= Len(s) /\ SubSeq(s, Len(s) - Len(p) + 1, Len(s)) = p

\* str.split(sep) for a one-atom separator: always at least one field
RECURSIVE SplitFrom(_, _, _, _)
SplitFrom(s, sep, cur, acc) ==
    IF s = <<>> THEN Append(acc, cur)
    ELSE IF Head(s) = sep THEN SplitFrom(Tail(s), sep, <<>>, Append(acc, cur))
    ELSE SplitFrom(Tail(s), sep, Append(cur, Head(s)), acc)

Split(s, sep) == SplitFrom(s, sep, <<>>, <<>>)

\* str.replace(a, "") for a one-atom a
Remove(s, a) == SelectSeq(s, LAMBDA c : c # a)

\* sub in s, for a one-atom sub
Contains(s, a) == \E i \in 1..Len(s) : s[i] = a

\* str.rfind(a) + 1 for a one-atom a: 0 when a does not occur
RFindEnd(s, a) ==
    IF Contains(s, a) THEN CHOOSE i \in 1..Len(s) :
                               s[i] = a /\ \A j \in (i + 1)..Len(s) : s[j] # a
    ELSE 0

\* sub in s, for a substring of any length
IsInfix(sub, s) ==
    \E i \in 0..(Len(s) - Len(sub)) : SubSeq(s, i + 1, i + Len(sub)) = sub

\* str.zfill(n)
RECURSIVE ZFill(_, _)
ZFill(s, n) == IF Len(s) >= n THEN s ELSE ZFill(<<"0">> \o s, n)

\* the last element of a non-empty list, xs[-1]
Last(xs) == xs[Len(xs)]

\* "".join of a list of strings
RECURSIVE Concat(_)
Concat(xs) == IF xs = <<>> THEN <<>> ELSE Head(xs) \o Concat(Tail(xs))

\* sep.join(fields)
RECURSIVE Join(_, _)
Join(fields, sep) ==
    IF fields = <<>> THEN <<>>
    ELSE IF Len(fields) = 1 THEN Head(fields)
    ELSE Head(fields) \o <<sep>> \o Join(Tail(fields), sep)

\* all sequences over S of length at most n
SeqUpTo(S, n) == UNION {[1..k -> S] : k \in 0..n}

\* ===================================================================
\* project.py: the daily-index scraper
\* ===================================================================
T10K == <<"1", "0", "-", "K">>
T10Q == <<"1", "0", "-", "Q">>
T8K == <<"8", "-", "K">>
TDEF14A == <<"D", "E", "F", " ", "1", "4", "A">>

VALID_FILING_TYPES == {T10K, T10Q, T8K, TDEF14A}

\* --- the registry's answers -----------------------------------------
\* fields of index lines
Cik1 == <<"1">>
Cik2 == <<"2">>
NameA == <<"A", "c">>
NameB == <<"B", "d">>
DateD == <<"2", "0">>
PathA1 == <<"e", "/", "1", "/", "7", "-", "1", ".txt">>
PathB1 == <<"e", "/", "2", "/", "7", "-", "1", ".txt">>
PathA2 == <<"e", "/", "1", "/", "7", "-", "2", ".txt">>

\* master.YYYYMMDD.idx: the column header, the dashed rule, data lines
HeaderLine == Join(<<<<"C">>, <<"N">>, <<"F">>, <<"D">>, <<"P">>>>, "|")
SepLine == <<"-", "-", "-", "-", "-", "-", "-", "-">>
Line10K == Join(<<Cik1, NameA, T10K, DateD, PathA1>>, "|")
LineCoFiler == Join(<<Cik2, NameB, T10K \o <<"4", "0", "5">>, DateD, PathB1>>, "|")
LineNT == Join(<<Cik1, NameA, <<"N", "T", " ">> \o T10K, DateD, PathA2>>, "|")
Line8K == Join(<<Cik1, NameA, T8K, DateD, PathA2>>, "|")
LinePadded == <<" ">> \o Join(<<Cik2, NameB, <<" ", "1", "0", "-", "k", " ">>, DateD, PathA2>>, "|") \o <<" ">>
Line4Fields == Join(<<Cik1, NameA, T10K, DateD>>, "|")
Line6Fields == Join(<<Cik1, NameA, T10K, DateD, PathA1, <<"x">>>>, "|")
BlankLine == <<>>
LineNoDate == Join(<<Cik1, NameA, T10K, <<>>, PathA2>>, "|")

IndexLines ==
    {SepLine, Line10K, LineCoFiler, LineNT, Line8K, LinePadded,
     Line4Fields, Line6Fields, BlankLine}

\* what precedes the data lines: nothing, the rule, the header and the rule
IndexHeads == {<<>>, <<SepLine>>, <<HeaderLine, SepLine>>}

\* response.text of one day's index, as the list content.splitlines() gives;
\* the empty body is the empty list
IndexDocs == {h \o b : h \in IndexHeads, b \in SeqUpTo(IndexLines, MaxLines)}

\* company_tickers.json: data.values()
TickerData == {[cik_str |-> Cik1, ticker |-> <<"A", "C">>]}

\* --- project.py:64-67 -------------------------------------------------
AccessionOfPath(filename) == Remove(Last(Split(filename, "/")), ".txt")

build_filing_url(cik, filename) ==
    LET accession_with_hyphens == AccessionOfPath(filename)
        accession_no_hyphens == Remove(accession_with_hyphens, "-")
    IN  <<"https://www.sec.gov/Archives/edgar/data/">> \o cik \o <<"/">>
            \o accession_no_hyphens \o <<"/">> \o accession_with_hyphens
            \o <<"-index.html">>

\* --- project.py:69-78 -------------------------------------------------
\* the dict built from the JSON, {} when the request or the parse fails
TickerMap(data) ==
    [k \in {ZFill(v.cik_str, 10) : v \in data} |->
        (CHOOSE v \in data : ZFill(v.cik_str, 10) = k).ticker]

\* dict.get(key, default)
DictGet(d, key, default) == IF key \in DOMAIN d THEN d[key] ELSE default

\* --- project.py:100-128 -----------------------------------------------
\* lines[data_start_index:]
RECURSIVE FirstSeparator(_, _)
FirstSeparator(lines, i) ==
    IF i > Len(lines) THEN 0
    ELSE IF StartsWith(lines[i], <<"-", "-", "-", "-", "-", "-", "-">>) THEN i
    ELSE FirstSeparator(lines, i + 1)

DataLines(lines) == SubSeq(lines, FirstSeparator(lines, 1) + 1, Len(lines))

\* a parser that forgets line.strip()
Parts_NoStrip(line) == Split(line, "|")

\* parts = line.strip().split('|')
Parts(line) == Split(Strip(line), "|")

\* a matcher that compares for equality instead of a prefix
FormMatches_Exact(form, ftype) == Upper(Strip(form)) = ftype

\* form.strip().upper().startswith(filing_type)
FormMatches(form, ftype) == StartsWith(Upper(Strip(form)), ftype)

\* the dict appended for one accepted line
FilingRow(parts, tickers) ==
    LET cik == parts[1]
        name == parts[2]
        form == parts[3]
        date_filed == parts[4]
        filename == parts[5]
    IN  [CIK |-> Strip(cik),
         CompanyName |-> name,
         Ticker |-> DictGet(tickers, ZFill(Strip(cik), 10), <<>>),
         FormType |-> Strip(form),
         DateFiled |-> Strip(date_filed),
         FilingURL |-> build_filing_url(Strip(cik), Strip(filename))]

\* a line loop that breaks at the first malformed line instead of skipping it
RECURSIVE RawRecords_Break(_)
RawRecords_Break(lines) ==
    IF lines = <<>> THEN <<>>
    ELSE LET parts == Parts(Head(lines))
         IN  IF Len(parts) # 5 THEN <<>>
             ELSE <<parts>> \o RawRecords_Break(Tail(lines))

\* the 5-tuples unpacked at line 113, in line order
RECURSIVE RawRecords(_)
RawRecords(lines) ==
    IF lines = <<>> THEN <<>>
    ELSE LET parts == Parts(Head(lines))
         IN  IF Len(parts) # 5 THEN RawRecords(Tail(lines))
             ELSE <<parts>> \o RawRecords(Tail(lines))

\* a line loop that puts each accepted row in front of the earlier ones
RECURSIVE RowsOf_Reversed(_, _, _)
RowsOf_Reversed(lines, ftype, tickers) ==
    IF lines = <<>> THEN <<>>
    ELSE LET parts == Parts(Head(lines))
             rest == RowsOf_Reversed(Tail(lines), ftype, tickers)
         IN  IF Len(parts) # 5 THEN rest
             ELSE IF ~FormMatches(parts[3], ftype) THEN rest
             ELSE rest \o <<FilingRow(parts, tickers)>>

\* the rows the loop over lines appends
RECURSIVE RowsOf(_, _, _)
RowsOf(lines, ftype, tickers) ==
    IF lines = <<>> THEN <<>>
    ELSE LET parts == Parts(Head(lines))
             rest == RowsOf(Tail(lines), ftype, tickers)
         IN  IF Len(parts) # 5 THEN rest
             ELSE IF ~FormMatches(parts[3], ftype) THEN rest
             ELSE <<FilingRow(parts, tickers)>> \o rest

\* --- outbound traffic ---------------------------------------------------
\* one outbound request (with the retries the session makes inside it): what
\* was asked, of which day, page, filer or filing, under which User-Agent,
\* and whether it ended in a 2xx answer
Request(what, n, ua, ok) ==
    [op |-> "request", what |-> what, n |-> n, ua |-> ua, ok |-> ok]

\* time.sleep(SEC_DELAY)
Sleep == [op |-> "sleep", what |-> "SEC_DELAY", n |-> 0, ua |-> <<>>, ok |-> TRUE]

\* the timeout= argument of the call site of each kind of request, in
\* seconds; 0 stands for a call that passes none (requests then waits for
\* the answer without limit)
TimeoutOf(what) ==
    CASE what = "tickers" -> 0
      [] what = "index" -> 10
      [] what = "search" -> 10
      [] what = "submissions" -> 10
      [] what = "document" -> 10
      [] OTHER -> 0

\* project.py:44, 72: the User-Agent literal
IdxUserAgent == <<"Your Name your.email@example.com">>

\* --- project.py:81-88: run_button with a two-date range -----------------
\* the index documents the registry serves during a run
RunDocs ==
    {<<HeaderLine, SepLine, Line10K, LineCoFiler>>,
     <<SepLine, Line8K, Line4Fields, Line10K>>,
     <<SepLine, LinePadded>>,
     <<SepLine, LineNoDate>>,
     <<>>}

\* app.py:253, 278: the all-empty details
EmptyDetails == [entity_name |-> <<>>, location |-> <<>>, incorporated |-> <<>>]

\* app.py is not running
IdleApp ==
    /\ user = [full_name |-> <<>>, email |-> <<>>]
    /\ selection = [selected_options |-> <<>>, custom_type |-> <<>>]
    /\ show_details = FALSE
    /\ filing_types = <<>>
    /\ company_cache = <<>>
    /\ page = 0
    /\ result = "none"
    /\ hits = <<>>
    /\ last_data = <<>>
    /\ details = EmptyDetails

\* project_reader.py is not running
IdleRdr ==
    /\ file_type = <<>>
    /\ df = <<>>
    /\ row_i = 0
    /\ results = <<>>

\* no resolver is being exercised on its own
IdleDoc ==
    /\ served_rows = <<>>
    /\ served_links = <<>>
    /\ wanted = <<>>
    /\ resolved = <<>>

\* project.py is not running
IdleIdx ==
    /\ filing_type = T10K
    /\ ndays = 0
    /\ day = 0
    /\ cik_to_ticker = <<>>
    /\ content = None
    /\ raws = <<>>

InitIdx ==
    /\ pc = "start"
    /\ net = <<>>
    /\ all_filings = <<>>
    /\ filing_type \in VALID_FILING_TYPES
    /\ ndays \in 1..MaxDays
    /\ day = 0
    /\ cik_to_ticker = <<>>
    /\ content = None
    /\ raws = <<>>
    /\ IdleApp
    /\ IdleRdr
    /\ IdleDoc

\* client = SECClient(); all_filings = []; cik_to_ticker = get_cik_ticker_map()
StartRun ==
    /\ pc = "start"
    /\ \E ok \in BOOLEAN :
        /\ cik_to_ticker' = IF ok THEN TickerMap(TickerData) ELSE TickerMap({})
        /\ net' = Append(net, Request("tickers", 0, IdxUserAgent, ok))
    /\ all_filings' = <<>>
    /\ day' = 1
    /\ pc' = "days"
    /\ UNCHANGED <<docVars, filing_type, ndays, content, raws, appVars, rdrVars>>

\* project.py:72: the registry accepts the connection and never answers; the
\* call has no timeout, so get_cik_ticker_map does not return
StartRunBlocked ==
    /\ pc = "start"
    /\ TimeoutOf("tickers") = 0
    /\ net' = Append(net, Request("tickers", 0, IdxUserAgent, FALSE))
    /\ all_filings' = <<>>
    /\ pc' = "blocked"
    /\ UNCHANGED <<docVars, idxVars, appVars, rdrVars>>

\* project.py:96-98: get_master_index returned None or an empty body
FetchDaySkipped ==
    /\ pc = "days"
    /\ day <= ndays
    /\ \E body \in {None, <<>>} :
        /\ content' = body
        /\ net' = Append(net, Request("index", day, IdxUserAgent, body # None))
    /\ raws' = <<>>
    /\ day' = day + 1
    /\ UNCHANGED <<docVars, pc, all_filings, filing_type, ndays, cik_to_ticker, appVars, rdrVars>>

\* project.py:96-129: one day's index fetched, parsed, filtered, appended
FetchDay ==
    /\ pc = "days"
    /\ day <= ndays
    /\ \E body \in RunDocs \ {<<>>} :
        /\ content' = body
        /\ raws' = RawRecords(DataLines(body))
        /\ all_filings' =
              all_filings \o RowsOf(DataLines(body), filing_type, cik_to_ticker)
    /\ net' = net \o <<Request("index", day, IdxUserAgent, TRUE), Sleep>>
    /\ day' = day + 1
    /\ UNCHANGED <<docVars, pc, filing_type, ndays, cik_to_ticker, appVars, rdrVars>>

\* project.py:131: the day loop is exhausted
FinishRun ==
    /\ pc = "days"
    /\ day > ndays
    /\ pc' = "done"
    /\ UNCHANGED <<docVars, net, all_filings, idxVars, appVars, rdrVars>>

NextIdx == StartRun \/ StartRunBlocked \/ FetchDaySkipped \/ FetchDay \/ FinishRun

SpecIdx == InitIdx /\ [][NextIdx]_vars

\* --- project.py:100-128 applied to one index document --------------------
InitParse ==
    /\ pc = "fetched"
    /\ net = <<>>
    /\ all_filings = <<>>
    /\ filing_type \in VALID_FILING_TYPES
    /\ ndays = 1
    /\ day = 1
    /\ cik_to_ticker = TickerMap(TickerData)
    /\ content \in IndexDocs \ {<<>>}
    /\ raws = <<>>
    /\ IdleApp
    /\ IdleRdr
    /\ IdleDoc

ParseIndex ==
    /\ pc = "fetched"
    /\ raws' = RawRecords(DataLines(content))
    /\ all_filings' =
          all_filings \o RowsOf(DataLines(content), filing_type, cik_to_ticker)
    /\ pc' = "parsed"
    /\ UNCHANGED <<docVars, net, filing_type, ndays, day, cik_to_ticker, content, appVars, rdrVars>>

NextParse == ParseIndex

SpecParse == InitParse /\ [][NextParse]_vars

\* ===================================================================
\* app.py: the query-API scraper
\* ===================================================================
\* --- app.py:56-67 ---------------------------------------------------------
STATE_ABBREV ==
    [c \in {} |-> <<>>]
    @@ (<<"A", "L">> :> <<"Alabama">>) @@ (<<"A", "K">> :> <<"Alaska">>)
    @@ (<<"A", "Z">> :> <<"Arizona">>) @@ (<<"A", "R">> :> <<"Arkansas">>)
    @@ (<<"C", "A">> :> <<"California">>) @@ (<<"C", "O">> :> <<"Colorado">>)
    @@ (<<"C", "T">> :> <<"Connecticut">>) @@ (<<"D", "E">> :> <<"Delaware">>)
    @@ (<<"F", "L">> :> <<"Florida">>) @@ (<<"G", "A">> :> <<"Georgia">>)
    @@ (<<"H", "I">> :> <<"Hawaii">>) @@ (<<"I", "D">> :> <<"Idaho">>)
    @@ (<<"I", "L">> :> <<"Illinois">>) @@ (<<"I", "N">> :> <<"Indiana">>)
    @@ (<<"I", "A">> :> <<"Iowa">>) @@ (<<"K", "S">> :> <<"Kansas">>)
    @@ (<<"K", "Y">> :> <<"Kentucky">>) @@ (<<"L", "A">> :> <<"Louisiana">>)
    @@ (<<"M", "E">> :> <<"Maine">>) @@ (<<"M", "D">> :> <<"Maryland">>)
    @@ (<<"M", "A">> :> <<"Massachusetts">>) @@ (<<"M", "I">> :> <<"Michigan">>)
    @@ (<<"M", "N">> :> <<"Minnesota">>) @@ (<<"M", "S">> :> <<"Mississippi">>)
    @@ (<<"M", "O">> :> <<"Missouri">>) @@ (<<"M", "T">> :> <<"Montana">>)
    @@ (<<"N", "E">> :> <<"Nebraska">>) @@ (<<"N", "V">> :> <<"Nevada">>)
    @@ (<<"N", "H">> :> <<"New Hampshire">>) @@ (<<"N", "J">> :> <<"New Jersey">>)
    @@ (<<"N", "M">> :> <<"New Mexico">>) @@ (<<"N", "Y">> :> <<"New York">>)
    @@ (<<"N", "C">> :> <<"North Carolina">>) @@ (<<"N", "D">> :> <<"North Dakota">>)
    @@ (<<"O", "H">> :> <<"Ohio">>) @@ (<<"O", "K">> :> <<"Oklahoma">>)
    @@ (<<"O", "R">> :> <<"Oregon">>) @@ (<<"P", "A">> :> <<"Pennsylvania">>)
    @@ (<<"R", "I">> :> <<"Rhode Island">>) @@ (<<"S", "C">> :> <<"South Carolina">>)
    @@ (<<"S", "D">> :> <<"South Dakota">>) @@ (<<"T", "N">> :> <<"Tennessee">>)
    @@ (<<"T", "X">> :> <<"Texas">>) @@ (<<"U", "T">> :> <<"Utah">>)
    @@ (<<"V", "T">> :> <<"Vermont">>) @@ (<<"V", "A">> :> <<"Virginia">>)
    @@ (<<"W", "A">> :> <<"Washington">>) @@ (<<"W", "V">> :> <<"West Virginia">>)
    @@ (<<"W", "I">> :> <<"Wisconsin">>) @@ (<<"W", "Y">> :> <<"Wyoming">>)

\* --- app.py:219-231: SECAPIClient.__init__ ------------------------------
\* f"{full_name} {email}"
UserAgentOf(u) == u.full_name \o <<" ">> \o u.email

\* --- app.py:247-278: SECAPIClient.get_company_details -------------------
\* data.get(key, default): a key the object lacks is held as Absent
JsonGet(obj, key, default) == IF obj[key] = Absent THEN default ELSE obj[key]

\* the submissions JSON, flattened: addresses and business hold <<"{}">> for
\* an object, None for a JSON null, Absent for a missing key; city and
\* stateOrCountry are the fields of addresses.business
IsObject(v) == v # None /\ v # Absent

\* data.get("addresses", {}).get("business", {})
BusinessField(data, key) ==
    IF data.addresses = Absent \/ data.business = Absent THEN Absent ELSE data[key]

\* data.get("stateOfIncorporation", data.get("incorporationState", ""))
IncorporatedOf(data) ==
    JsonGet(data, "stateOfIncorporation", JsonGet(data, "incorporationState", <<>>))

\* lines 260-272, when nothing raises; a null city is formatted as "None"
DetailsOf(data) ==
    LET city == IF BusinessField(data, "city") = Absent THEN <<>>
                ELSE IF BusinessField(data, "city") = None THEN <<"None">>
                ELSE BusinessField(data, "city")
        code == IF BusinessField(data, "stateOrCountry") = Absent
                THEN <<>> ELSE BusinessField(data, "stateOrCountry")
        location == city \o <<",", " ">> \o DictGet(STATE_ABBREV, code, <<>>)
        incorporated == IncorporatedOf(data)
    IN  [entity_name |-> JsonGet(data, "name", <<>>),
         location |-> location,
         incorporated |-> DictGet(STATE_ABBREV, Upper(incorporated), incorporated)]

\* lines 260-266 raise (AttributeError, TypeError) on a JSON null where an
\* object or a string is expected
DetailsRaise(data) ==
    \/ data.addresses = None
    \/ (data.addresses # Absent /\ data.business = None)
    \/ IncorporatedOf(data) = None

\* a resolver that does not look at show_details
get_company_details_AlwaysFetch(cache, show, ua, cik, answer) ==
    IF cik \in DOMAIN cache
    THEN [ret |-> cache[cik], cache |-> cache, reqs |-> <<>>, data |-> <<>>]
    ELSE IF answer = <<>>
    THEN [ret |-> EmptyDetails, cache |-> cache,
          reqs |-> <<Request("submissions", cik, ua, FALSE)>>, data |-> <<>>]
    ELSE IF DetailsRaise(answer[1])
    THEN [ret |-> EmptyDetails, cache |-> cache,
          reqs |-> <<Request("submissions", cik, ua, TRUE)>>, data |-> answer]
    ELSE [ret |-> DetailsOf(answer[1]),
          cache |-> cache @@ (cik :> DetailsOf(answer[1])),
          reqs |-> <<Request("submissions", cik, ua, TRUE)>>, data |-> answer]

\* the whole method: what it returns, the cache it leaves, the requests it
\* made and the JSON it read.  answer is the registry's answer when a request
\* is made: <<>> for a failed request, else <<the JSON object>>.
get_company_details(cache, show, ua, cik, answer) ==
    IF cik \in DOMAIN cache
    THEN [ret |-> cache[cik], cache |-> cache, reqs |-> <<>>, data |-> <<>>]
    ELSE IF ~show
    THEN [ret |-> EmptyDetails, cache |-> cache, reqs |-> <<>>, data |-> <<>>]
    ELSE IF answer = <<>>
    THEN [ret |-> EmptyDetails, cache |-> cache,
          reqs |-> <<Request("submissions", cik, ua, FALSE)>>, data |-> <<>>]
    ELSE IF DetailsRaise(answer[1])
    THEN [ret |-> EmptyDetails, cache |-> cache,
          reqs |-> <<Request("submissions", cik, ua, TRUE)>>, data |-> answer]
    ELSE [ret |-> DetailsOf(answer[1]),
          cache |-> cache @@ (cik :> DetailsOf(answer[1])),
          reqs |-> <<Request("submissions", cik, ua, TRUE)>>, data |-> answer]

\* --- app.py:281-286: extract_ticker ----------------------------------------
\* a display name is text with parenthesised groups, each group one atom
ParenGroups == {"(AC)", "(CIK 1)", "(CIK 2)"}

\* the groups \\([A-Z]+\\) matches
UpperGroups == {"(AC)"}

\* match.group(1).split(',')[0].strip() of a group
GroupFirstItem(g) ==
    CASE g = "(AC)" -> <<"A", "C">>
      [] g = "(CIK 1)" -> <<"CIK", " ", "1">>
      [] g = "(CIK 2)" -> <<"CIK", " ", "2">>
      [] OTHER -> <<>>

RECURSIVE FirstGroup(_)
FirstGroup(name) ==
    IF name = <<>> THEN Absent
    ELSE IF Head(name) \in ParenGroups THEN <<Head(name)>>
    ELSE FirstGroup(Tail(name))

extract_ticker(entity_name) ==
    LET match == FirstGroup(entity_name)
    IN  IF match # Absent /\ ~Contains(GroupFirstItem(match[1]), "CIK")
        THEN GroupFirstItem(match[1])
        ELSE <<>>

\* re.sub(r"\\s*<group>", "", name) for the groups in G
RECURSIVE RemoveGroups(_, _)
RemoveGroups(name, G) ==
    IF name = <<>> THEN <<>>
    ELSE LET init == SubSeq(name, 1, Len(name) - 1)
         IN  IF Last(name) \in G THEN RemoveGroups(RStrip(init), G)
             ELSE Append(RemoveGroups(init, G), Last(name))

\* --- app.py:297-312: build_filing_url --------------------------------------
UrlUnavailable == <<"URL", " ", "unavailable">>

app_build_filing_url(cik, accession_number) ==
    IF accession_number = <<>> THEN UrlUnavailable
    ELSE LET directory == Remove(accession_number, "-")
             filename == accession_number \o <<"-index.htm">>
         IN  <<"https://www.sec.gov/Archives/edgar/data/">> \o cik \o <<"/">>
                 \o directory \o <<"/">> \o filename

\* --- app.py:339-401: get_matching_document ---------------------------------
\* atoms that begin with "http"
HttpAtoms ==
    {"https://www.sec.gov/Archives/edgar/data/", "https://www.sec.gov", "http://cdn"}

StartsWithHttp(url) == url # <<>> /\ url[1] \in HttpAtoms

\* url.lower().endswith(('.htm', '.html'))
EndsWithHtml(url) ==
    EndsWith(Lower(url), <<".htm">>) \/ EndsWith(Lower(url), <<".html">>)

\* sizes are counted in tenths of a byte, so that "1.1" is a whole number
Raised == -1

\* the numerals the size column uses
NumberValue(a) ==
    CASE a = "12" -> 120
      [] a = "1.1" -> 11
      [] a = "900" -> 9000
      [] OTHER -> Raised

IsNumeral(a) == NumberValue(a) # Raised

\* float(text): blanks around one numeral are accepted, anything else raises
Float(text) ==
    IF Len(Strip(text)) = 1 THEN NumberValue(Strip(text)[1]) ELSE Raised

\* lines 368-375
ParseSize(size_text) ==
    IF size_text = <<>> THEN 0
    ELSE IF Contains(size_text, "KB")
    THEN IF Float(Remove(size_text, "KB")) = Raised THEN Raised
         ELSE Float(Remove(size_text, "KB")) * 1024
    ELSE IF Contains(size_text, "MB")
    THEN IF Float(Remove(size_text, "MB")) = Raised THEN Raised
         ELSE Float(Remove(size_text, "MB")) * 1024 * 1024
    ELSE IF Len(size_text) = 1 /\ IsNumeral(size_text[1]) THEN Float(size_text)
    ELSE 0

\* lines 358-385: the loop over doc_rows; best is (best_match_url,
\* best_match_size), or Raised once a row has raised
RECURSIVE ScanRows(_, _, _)
ScanRows(rows, form_type, best) ==
    IF rows = <<>> THEN best
    ELSE LET row == Head(rows)
             rest == Tail(rows)
             doc_url == IF row.href = Absent THEN <<>> ELSE row.href
             size == ParseSize(row.size)
         IN  IF row.ncells < 4 THEN ScanRows(rest, form_type, best)
             ELSE IF row.ncells < 5 THEN [url |-> <<>>, size |-> Raised]
             ELSE IF ~EndsWithHtml(doc_url) THEN ScanRows(rest, form_type, best)
             ELSE IF size = Raised THEN [url |-> <<>>, size |-> Raised]
             ELSE IF Upper(row.doctype) = Upper(form_type)
             THEN IF size > best.size
                  THEN ScanRows(rest, form_type, [url |-> doc_url, size |-> size])
                  ELSE ScanRows(rest, form_type, best)
             ELSE IF best.url = <<>> /\ IsInfix(Upper(form_type), Upper(row.doctype))
             THEN IF size > best.size
                  THEN ScanRows(rest, form_type, [url |-> doc_url, size |-> size])
                  ELSE ScanRows(rest, form_type, best)
             ELSE ScanRows(rest, form_type, best)

\* lines 387-395
Absolute(best_match_url, filing_url) ==
    IF StartsWithHttp(best_match_url) THEN best_match_url
    ELSE IF best_match_url[1] = "/" THEN <<"https://www.sec.gov">> \o best_match_url
    ELSE SubSeq(filing_url, 1, RFindEnd(filing_url, "/")) \o best_match_url

\* the whole function: what it returns and the requests it made.  index_page
\* is the registry's answer when the request is made: <<>> for a failed
\* request, else <<the rows 'table.tableFile tr' selects>>.
get_matching_document(filing_url, form_type, ua, index_page) ==
    IF filing_url = <<>> \/ Contains(filing_url, "unavailable")
    THEN [ret |-> None, reqs |-> <<>>]
    ELSE IF index_page = <<>>
    THEN [ret |-> <<"None">>, reqs |-> <<Request("document", filing_url, ua, FALSE)>>]
    ELSE LET doc_rows == IF index_page[1] = <<>> THEN <<>> ELSE Tail(index_page[1])
             best == ScanRows(doc_rows, form_type, [url |-> <<>>, size |-> 0])
             reqs == <<Request("document", filing_url, ua, TRUE)>>
         IN  IF best.size = Raised THEN [ret |-> <<"None">>, reqs |-> reqs]
             ELSE IF best.url # <<>>
             THEN [ret |-> Absolute(best.url, filing_url), reqs |-> reqs]
             ELSE [ret |-> <<"None">>, reqs |-> reqs]

\* --- the registry's answers to app.py --------------------------------------
Cik3 == <<"3">>

\* data.sec.gov/submissions/CIK##########.json
SubmissionsDE ==
    [name |-> NameA, addresses |-> <<"{}">>, business |-> <<"{}">>,
     city |-> <<"Dover">>, stateOrCountry |-> <<"D", "E">>,
     stateOfIncorporation |-> <<"D", "E">>, incorporationState |-> Absent]

SubmissionsZZ ==
    [name |-> NameB, addresses |-> <<"{}">>, business |-> <<"{}">>,
     city |-> <<"Zug">>, stateOrCountry |-> <<"Z", "Z">>,
     stateOfIncorporation |-> Absent, incorporationState |-> <<"Z", "Z">>]

SubmissionsNull ==
    [name |-> NameA, addresses |-> <<"{}">>, business |-> <<"{}">>,
     city |-> <<"Dover">>, stateOrCountry |-> <<"d", "e">>,
     stateOfIncorporation |-> None, incorporationState |-> Absent]

SubmissionsOf(cik) ==
    CASE cik = Cik1 -> SubmissionsDE
      [] cik = Cik2 -> SubmissionsZZ
      [] OTHER -> SubmissionsNull

\* the rows 'table.tableFile tr' selects on a filing index page
HeaderRow == [ncells |-> 0, doctype |-> <<>>, href |-> Absent, size |-> <<>>]

DocRow(doctype, href, size) ==
    [ncells |-> 5, doctype |-> doctype, href |-> href, size |-> size]

IndexPageOf(filing_url) ==
    IF EndsWith(filing_url, <<"7", "-", "1", "-index.htm">>)
    THEN <<HeaderRow,
           DocRow(T10K, <<"/", "A", "/", "m", ".htm">>, <<"1.1", " ", "MB">>),
           DocRow(<<"E", "X">>, <<"x", ".htm">>, <<"12", " ", "KB">>)>>
    ELSE <<HeaderRow,
           DocRow(<<"E", "X">>, <<"x", ".htm">>, <<"12", " ", "KB">>),
           [ncells |-> 4, doctype |-> T8K, href |-> <<"k", ".htm">>, size |-> <<>>]>>

\* efts.sec.gov/LATEST/search-index: the hits of a page
Hit(ciks, form, adsh, names, id) ==
    [ciks |-> ciks, form |-> form, file_date |-> DateD, adsh |-> adsh,
     display_names |-> names, id |-> id]

NameAcme == NameA \o <<" ", "(AC)", " ", "(CIK 1)">>
NameBeta == NameB \o <<" ", "(CIK 2)">>
Adsh1 == <<"7", "-", "1">>
Adsh2 == <<"7", "-", "2">>

HitMain == Hit(<<Cik1>>, T10K, Adsh1, <<NameAcme>>, "a")
HitExhibit == Hit(<<Cik1>>, T10K, Adsh1, <<NameAcme>>, "b")
HitBeta == Hit(<<Cik2>>, T8K, Adsh2, <<NameBeta>>, "c")
HitBare == Hit(<<Cik3>>, Absent, Absent, Absent, "d")
HitNoCik == Hit(<<>>, T10K, Adsh1, <<NameAcme>>, "e")
HitNoName == Hit(<<Cik2>>, T8K, Adsh2, <<>>, "f")

ResultPages ==
    {<<HitMain, HitExhibit>>, <<HitBeta, HitNoCik>>, <<HitBare>>, <<HitNoName, HitBeta>>}

\* st.session_state.user['full_name'], ['email'] as signed up (app.py:130-139)
Users ==
    {[full_name |-> <<"J", "o">>, email |-> <<"j@x.org">>],
     [full_name |-> <<>>, email |-> <<>>]}

\* the sidebar's selected_options and custom_type
Selections ==
    {[selected_options |-> <<>>, custom_type |-> <<>>],
     [selected_options |-> <<<<"13D (custom)">>, T10K>>,
      custom_type |-> <<"8", "-", "k", ",", " ">>]}

\* --- app.py:154-160, 288-295: expand_filing_types ---------------------------
CUSTOM_FILING_GROUPS ==
    (<<"Non-mgt (custom)">> :>
        <<<<"DEFC14A">>, <<"DEFC14C">>, <<"DEFN14A">>, <<"DEFR14A">>, <<"DFAN14A">>,
          <<"DFRN14A">>, <<"PREC14A">>, <<"PREC14C">>, <<"PREN14A">>, <<"PRER14A">>,
          <<"PRRN14A">>>>)
    @@ (<<"13D (custom)">> :> <<<<"SC 13D">>, <<"SCHEDULE 13D">>>>)
    @@ (<<"13G (custom)">> :> <<<<"SC 13G">>, <<"SCHEDULE 13G">>>>)

RECURSIVE expand_filing_types(_)
expand_filing_types(selected_options) ==
    IF selected_options = <<>> THEN <<>>
    ELSE LET option == Head(selected_options)
         IN  (IF option \in DOMAIN CUSTOM_FILING_GROUPS
              THEN CUSTOM_FILING_GROUPS[option] ELSE <<option>>)
             \o expand_filing_types(Tail(selected_options))

\* app.py:408: [x.strip().upper() for x in custom_type.split(',') if x.strip()]
RECURSIVE StripUpperAll(_)
StripUpperAll(xs) ==
    IF xs = <<>> THEN <<>>
    ELSE (IF Strip(Head(xs)) = <<>> THEN <<>> ELSE <<Upper(Strip(Head(xs)))>>)
         \o StripUpperAll(Tail(xs))

\* app.py:406-408
FilingTypesOf(sel) ==
    expand_filing_types(sel.selected_options)
        \o (IF sel.custom_type = <<>> THEN <<>>
            ELSE StripUpperAll(Split(sel.custom_type, ",")))

\* --- app.py:404-498: the run ---------------------------------------------------
InitApp ==
    /\ pc = "start"
    /\ net = <<>>
    /\ all_filings = <<>>
    /\ IdleIdx
    /\ IdleRdr
    /\ IdleDoc
    /\ user \in Users
    /\ selection \in Selections
    /\ show_details \in BOOLEAN
    /\ filing_types = <<>>
    /\ company_cache = <<>>
    /\ page = 0
    /\ result = "none"
    /\ hits = <<>>
    /\ last_data = <<>>
    /\ details = EmptyDetails

\* app.py:410-412: no filing type selected, st.stop()
StopNoTypes ==
    /\ pc = "start"
    /\ FilingTypesOf(selection) = <<>>
    /\ filing_types' = <<>>
    /\ pc' = "stopped"
    /\ UNCHANGED <<docVars, net, all_filings, idxVars, rdrVars, user, selection, show_details,
                   company_cache, page, result, hits, last_data, details>>

\* app.py:414-419: client = SECAPIClient(show_details); page = 1
StartSearch ==
    /\ pc = "start"
    /\ FilingTypesOf(selection) # <<>>
    /\ filing_types' = FilingTypesOf(selection)
    /\ company_cache' = <<>>
    /\ all_filings' = <<>>
    /\ page' = 1
    /\ pc' = "page"
    /\ UNCHANGED <<docVars, net, idxVars, rdrVars, user, selection, show_details, result, hits,
                   last_data, details>>

\* app.py:441-443: the search raised, or its JSON has no "hits": break
SearchFailed ==
    /\ pc = "page"
    /\ page <= MaxPages
    /\ \E ok \in BOOLEAN :
        /\ net' = Append(net, Request("search", page, UserAgentOf(user), ok))
        /\ result' = IF ok THEN "nohits" ELSE "failed"
    /\ pc' = "done"
    /\ UNCHANGED <<docVars, all_filings, idxVars, rdrVars, user, selection, show_details, filing_types,
                   company_cache, page, hits, last_data, details>>

\* app.py:448-450: an empty page, has_more = False: break
SearchEmpty ==
    /\ pc = "page"
    /\ page <= MaxPages
    /\ net' = Append(net, Request("search", page, UserAgentOf(user), TRUE))
    /\ result' = "empty"
    /\ pc' = "done"
    /\ UNCHANGED <<docVars, all_filings, idxVars, rdrVars, user, selection, show_details, filing_types,
                   company_cache, page, hits, last_data, details>>

\* app.py:441-446: a page of hits
SearchPage ==
    /\ pc = "page"
    /\ page <= MaxPages
    /\ net' = Append(net, Request("search", page, UserAgentOf(user), TRUE))
    /\ result' = "page"
    /\ \E hs \in ResultPages : hits' = hs
    /\ pc' = "hits"
    /\ UNCHANGED <<docVars, all_filings, idxVars, rdrVars, user, selection, show_details, filing_types,
                   company_cache, page, last_data, details>>

\* source["ciks"][0] raises
NoCik(hit) == hit.ciks = Absent \/ hit.ciks = <<>>

\* source.get("display_names", ["N/A"])[0] raises
NoName(hit) == hit.display_names = <<>>

DisplayName(hit) ==
    IF hit.display_names = Absent THEN <<"N/A">> ELSE hit.display_names[1]

\* app.py:471-482: the dict appended for a hit
HitRow(hit, det, main_doc_url) ==
    LET cik == hit.ciks[1]
        entity_name == DisplayName(hit)
    IN  [CIK |-> cik,
         Form |-> JsonGet(hit, "form", <<"N/A">>),
         DateFiled |-> JsonGet(hit, "file_date", <<"Unknown date">>),
         Ticker |-> extract_ticker(entity_name),
         FilingEntity |-> RemoveGroups(entity_name, ParenGroups),
         FilingPerson |-> RemoveGroups(entity_name, UpperGroups),
         Located |-> det.location,
         Incorporated |-> det.incorporated,
         Filing |-> app_build_filing_url(cik, JsonGet(hit, "adsh", <<>>)),
         MainDocument |-> main_doc_url]

\* app.py:452-482: one hit, resolved and appended
ProcessHit ==
    /\ pc = "hits"
    /\ hits # <<>>
    /\ ~NoCik(Head(hits))
    /\ ~NoName(Head(hits))
    /\ \E md_ok \in BOOLEAN, doc_ok \in BOOLEAN :
        LET hit == Head(hits)
            cik == hit.ciks[1]
            ua == UserAgentOf(user)
            filing_url == app_build_filing_url(cik, JsonGet(hit, "adsh", <<>>))
            md == get_company_details(company_cache, show_details, ua, cik,
                      IF md_ok THEN <<SubmissionsOf(cik)>> ELSE <<>>)
            doc == get_matching_document(filing_url, JsonGet(hit, "form", <<"N/A">>), ua,
                      IF doc_ok THEN <<IndexPageOf(filing_url)>> ELSE <<>>)
        IN  /\ company_cache' = md.cache
            /\ details' = md.ret
            /\ last_data' = md.data
            /\ net' = net \o md.reqs \o doc.reqs
            /\ all_filings' = Append(all_filings, HitRow(hit, md.ret, doc.ret))
    /\ hits' = Tail(hits)
    /\ UNCHANGED <<docVars, pc, idxVars, rdrVars, user, selection, show_details, filing_types, page,
                   result>>

\* app.py:484-486: the hit raised before the append; warned and skipped
DropHit ==
    /\ pc = "hits"
    /\ hits # <<>>
    /\ NoCik(Head(hits)) \/ NoName(Head(hits))
    /\ \E md_ok \in BOOLEAN :
        LET hit == Head(hits)
            ua == UserAgentOf(user)
            md == IF NoCik(hit)
                  THEN [ret |-> details, cache |-> company_cache, reqs |-> <<>>,
                        data |-> last_data]
                  ELSE get_company_details(company_cache, show_details, ua, hit.ciks[1],
                           IF md_ok THEN <<SubmissionsOf(hit.ciks[1])>> ELSE <<>>)
        IN  /\ company_cache' = md.cache
            /\ details' = md.ret
            /\ last_data' = md.data
            /\ net' = net \o md.reqs
    /\ hits' = Tail(hits)
    /\ UNCHANGED <<docVars, pc, all_filings, idxVars, rdrVars, user, selection, show_details,
                   filing_types, page, result>>

\* app.py:488-498: the page is done: page += 1; time.sleep(SEC_DELAY)
EndPage ==
    /\ pc = "hits"
    /\ hits = <<>>
    /\ page' = page + 1
    /\ net' = Append(net, Sleep)
    /\ pc' = "page"
    /\ UNCHANGED <<docVars, all_filings, idxVars, rdrVars, user, selection, show_details, filing_types,
                   company_cache, result, hits, last_data, details>>

NextApp ==
    \/ StopNoTypes
    \/ StartSearch
    \/ SearchFailed
    \/ SearchEmpty
    \/ SearchPage
    \/ ProcessHit
    \/ DropHit
    \/ EndPage

SpecApp == InitApp /\ [][NextApp]_vars

\* --- app.py:339-401 applied to one filing index page -------------------------
\* document rows the registry lists: the main document in two sizes, an
\* amendment (its type contains the form type), an exhibit, and a main
\* document whose size cell is empty
RowMainSmall == DocRow(T10K, <<"m", ".htm">>, <<"12", " ", "KB">>)
RowMainBig == DocRow(T10K, <<"/", "A", "/", "b", ".htm">>, <<"1.1", " ", "MB">>)
RowAmendment == DocRow(T10K \o <<"/", "A">>, <<"a", ".htm">>, <<"900", " ", "KB">>)
RowExhibit == DocRow(<<"E", "X">>, <<"x", ".htm">>, <<"12", " ", "KB">>)
RowMainNoSize == DocRow(T10K, <<"n", ".htm">>, <<>>)

DocRows == {RowMainSmall, RowMainBig, RowAmendment, RowExhibit, RowMainNoSize}

\* the form type asked for, as the search hit spells it
WantedForms == {T10K, <<"1", "0", "-", "k">>}

\* the filing whose index page is read
IndexUrl == app_build_filing_url(Cik1, Adsh1)

InitDoc ==
    /\ pc = "start"
    /\ net = <<>>
    /\ all_filings = <<>>
    /\ IdleIdx
    /\ IdleApp
    /\ IdleRdr
    /\ served_rows \in {<<HeaderRow>> \o b : b \in SeqUpTo(DocRows, MaxDocRows)}
    /\ served_links = <<>>
    /\ wanted \in WantedForms
    /\ resolved = <<>>

\* main_doc_url = get_matching_document(filing_url, form)
ResolveDocument ==
    /\ pc = "start"
    /\ \E doc_ok \in BOOLEAN :
        LET doc == get_matching_document(IndexUrl, wanted, UserAgentOf(user),
                       IF doc_ok THEN <<served_rows>> ELSE <<>>)
        IN  /\ resolved' = doc.ret
            /\ net' = net \o doc.reqs
    /\ pc' = "resolved"
    /\ UNCHANGED <<all_filings, idxVars, appVars, rdrVars, served_rows, served_links,
                   wanted>>

NextDoc == ResolveDocument

SpecDoc == InitDoc /\ [][NextDoc]_vars

\* --- either scraper, run once ---------------------------------------------------
\* project.py runs over a date range (ndays > 0), or app.py over result pages
InitRuns == InitIdx \/ InitApp

NextRuns ==
    \/ (ndays > 0 /\ StartRun)
    \/ (ndays > 0 /\ StartRunBlocked)
    \/ (ndays > 0 /\ FetchDaySkipped)
    \/ (ndays > 0 /\ FetchDay)
    \/ (ndays > 0 /\ FinishRun)
    \/ (ndays = 0 /\ StopNoTypes)
    \/ (ndays = 0 /\ StartSearch)
    \/ (ndays = 0 /\ SearchFailed)
    \/ (ndays = 0 /\ SearchEmpty)
    \/ (ndays = 0 /\ SearchPage)
    \/ (ndays = 0 /\ ProcessHit)
    \/ (ndays = 0 /\ DropHit)
    \/ (ndays = 0 /\ EndPage)

SpecRuns == InitRuns /\ [][NextRuns]_vars

\* ===================================================================
\* project_reader.py: the document-link resolver over a sheet of filings
\* ===================================================================
\* project_reader.py:23-25
SEC_HEADERS == <<"Abhishek Kumar, DataScriptBot/1.0 (contact: abhishek2005.siva@example.com)">>

\* an <a> element: <<>> when the cell has none, else <<[href, text]>>; href
\* is Absent when the element has no href attribute
Anchor(href, text) == <<[href |-> href, text |-> text]>>

NoAnchor == <<>>

\* a <tr> of a table: the number of its <td> cells, the text of cols[0] and
\* cols[3], the <a> of cols[0] and cols[2]
TableRow(ncells, col0, a0, a2, col3) ==
    [ncells |-> ncells, col0 |-> col0, a0 |-> a0, a2 |-> a2, col3 |-> col3]

\* lines 72, 86, 94
FullUrl(href) ==
    IF StartsWithHttp(href) THEN href ELSE <<"https://www.sec.gov">> \o href

\* lines 60-73: the rows of table.tableFile after its header; Absent when no
\* row returns, Raised (as a string) when a row raises
NoneFound == <<"<nothing>">>
RaisedInside == <<"<raised>">>

RECURSIVE Method1(_, _)
Method1(rows, ftype) ==
    IF rows = <<>> THEN NoneFound
    ELSE LET row == Head(rows)
         IN  IF row.ncells < 4 THEN Method1(Tail(rows), ftype)
             ELSE IF row.a2 # NoAnchor /\ row.a2[1].href = Absent THEN RaisedInside
             ELSE IF row.a2 # NoAnchor /\ row.a2[1].href # <<>>
                     /\ IsInfix(Upper(ftype), Upper(Strip(row.col3)))
             THEN FullUrl(row.a2[1].href)
             ELSE Method1(Tail(rows), ftype)

\* lines 75-87: every row of every table
RECURSIVE Method2(_, _)
Method2(rows, ftype) ==
    IF rows = <<>> THEN NoneFound
    ELSE LET row == Head(rows)
         IN  IF row.ncells >= 2 /\ IsInfix(Upper(ftype), Upper(Strip(row.col0)))
                 /\ row.a0 # NoAnchor
             THEN IF row.a0[1].href = Absent THEN RaisedInside
                  ELSE FullUrl(row.a0[1].href)
             ELSE Method2(Tail(rows), ftype)

\* lines 89-98: every <a href> of the page, in document order
RECURSIVE Method3(_, _)
Method3(links, ftype) ==
    IF links = <<>> THEN NoneFound
    ELSE LET link == Head(links)
             full_url == FullUrl(link.href)
         IN  IF IsInfix(Lower(ftype), Lower(link.href))
                 \/ IsInfix(Upper(ftype), Upper(link.text))
             THEN IF EndsWith(full_url, <<".htm">>) \/ EndsWith(full_url, <<".html">>)
                  THEN full_url
                  ELSE IF ~(EndsWith(full_url, <<".txt">>) \/ EndsWith(full_url, <<".xml">>))
                  THEN full_url
                  ELSE Method3(Tail(links), ftype)
             ELSE Method3(Tail(links), ftype)

\* soup.find('table', class_='tableFile'): the first such table, <<>> if none
RECURSIVE FindTableFile(_)
FindTableFile(tables) ==
    IF tables = <<>> THEN <<>>
    ELSE IF Head(tables).class = "tableFile" THEN <<Head(tables)>>
    ELSE FindTableFile(Tail(tables))

\* the rows of all tables, in document order
RECURSIVE AllRows(_)
AllRows(tables) ==
    IF tables = <<>> THEN <<>> ELSE Head(tables).rows \o AllRows(Tail(tables))

\* the <a> elements of the rows that have an href, in document order
RECURSIVE RowLinks(_)
RowLinks(rows) ==
    IF rows = <<>> THEN <<>>
    ELSE SelectSeq(Head(rows).a0 \o Head(rows).a2, LAMBDA a : a.href # Absent)
         \o RowLinks(Tail(rows))

\* soup.find_all('a', href=True)
AllLinks(soup) == RowLinks(AllRows(soup.tables)) \o soup.links

\* the whole function: what it returns (None when nothing is found or
\* anything raised) and the requests it made.  answer is <<>> for a failed
\* request, else <<the parsed page>>.
find_filing_html(filing_url, ftype, answer) ==
    IF answer = <<>>
    THEN [ret |-> None, reqs |-> <<Request("document", filing_url, SEC_HEADERS, FALSE)>>]
    ELSE LET soup == answer[1]
             table == FindTableFile(soup.tables)
             m1 == IF table = <<>> \/ table[1].rows = <<>> THEN NoneFound
                   ELSE Method1(Tail(table[1].rows), ftype)
             m2 == Method2(AllRows(soup.tables), ftype)
             m3 == Method3(AllLinks(soup), ftype)
             found == IF m1 # NoneFound THEN m1
                      ELSE IF m2 # NoneFound THEN m2
                      ELSE m3
         IN  [ret |-> IF found = NoneFound \/ found = RaisedInside THEN None ELSE found,
              reqs |-> <<Request("document", filing_url, SEC_HEADERS, TRUE)>>]

\* --- the registry's filing index pages ----------------------------------------
Href10K == <<"/", "A", "/", "1", "0", "-", "k", ".htm">>
HrefTxt == <<"/", "A", "/", "1", "0", "-", "k", ".txt">>

\* the usual page: a tableFile whose second row is the 10-K document
SoupStandard ==
    [tables |-> <<[class |-> "tableFile",
                   rows |-> <<TableRow(0, <<>>, NoAnchor, NoAnchor, <<>>),
                              TableRow(5, <<"1">>, NoAnchor,
                                       Anchor(Href10K, <<"m">>), T10K)>>]>>,
     links |-> <<>>]

\* a page that lists only the complete-submission text file
SoupTextOnly ==
    [tables |-> <<[class |-> "tableFile",
                   rows |-> <<TableRow(0, <<>>, NoAnchor, NoAnchor, <<>>),
                              TableRow(5, <<"1">>, NoAnchor,
                                       Anchor(HrefTxt, <<"t">>), <<"E", "X">>)>>]>>,
     links |-> <<>>]

\* a page without tables and with one link to a 10-K document
SoupLinkOnly ==
    [tables |-> <<>>,
     links |-> <<[href |-> <<"x", ".pdf">>, text |-> T10K]>>]

UrlStandard == app_build_filing_url(Cik1, Adsh1)
UrlTextOnly == app_build_filing_url(Cik2, Adsh2)
UrlLinkOnly == app_build_filing_url(Cik3, Adsh2)

SoupOf(filing_url) ==
    CASE filing_url = UrlStandard -> SoupStandard
      [] filing_url = UrlTextOnly -> SoupTextOnly
      [] OTHER -> SoupLinkOnly

\* the rows of <file_type>_filings_limited.xlsx after fillna('')
SheetRow(url, name, ticker) == [FilingURL |-> url, CompanyName |-> name, Ticker |-> ticker]

SheetRows ==
    {SheetRow(UrlStandard, NameA, <<"A", "C">>),
     SheetRow(UrlTextOnly, NameB, <<>>),
     SheetRow(UrlLinkOnly, NameA, <<>>)}

\* --- project_reader.py:53-105 applied to one page of hyperlinks -----------------
\* <a href> elements of a page: the 10-K document as HTML under a
\* root-relative and under an absolute address, as PDF under a
\* document-relative address (its text names the form), as plain text, and
\* an exhibit
LinkHtml == [href |-> Href10K, text |-> <<"m">>]
LinkAbsolute == [href |-> <<"http://cdn", "/", "1", "0", "-", "k", ".htm">>, text |-> <<"c">>]
LinkPdf == [href |-> <<"x", ".pdf">>, text |-> T10K]
LinkTxt == [href |-> HrefTxt, text |-> <<"t">>]
LinkExhibit == [href |-> <<"/", "o", ".htm">>, text |-> <<"E", "X">>]

PageLinks == {LinkHtml, LinkAbsolute, LinkPdf, LinkTxt, LinkExhibit}

\* a page without tables whose hyperlinks are the given ones
SoupOfLinks(links) == [tables |-> <<>>, links |-> links]

InitLink ==
    /\ pc = "start"
    /\ net = <<>>
    /\ all_filings = <<>>
    /\ IdleIdx
    /\ IdleApp
    /\ IdleRdr
    /\ served_rows = <<>>
    /\ served_links \in SeqUpTo(PageLinks, MaxLinks)
    /\ wanted \in {T10K, T8K}
    /\ resolved = <<>>

\* html_url = find_filing_html(row['Filing URL'], file_type)
ResolveLink ==
    /\ pc = "start"
    /\ \E ok \in BOOLEAN :
        LET res == find_filing_html(IndexUrl, wanted,
                       IF ok THEN <<SoupOfLinks(served_links)>> ELSE <<>>)
        IN  /\ resolved' = res.ret
            /\ net' = net \o res.reqs
    /\ pc' = "resolved"
    /\ UNCHANGED <<all_filings, idxVars, appVars, rdrVars, served_rows, served_links,
                   wanted>>

NextLink == ResolveLink

SpecLink == InitLink /\ [][NextLink]_vars

\* --- project_reader.py:135-176: p_r ---------------------------------------------
InitRdr ==
    /\ pc = "start"
    /\ net = <<>>
    /\ all_filings = <<>>
    /\ IdleIdx
    /\ IdleApp
    /\ IdleDoc
    /\ file_type \in {T10K, T8K}
    /\ df \in SeqUpTo(SheetRows, MaxRows)
    /\ row_i = 0
    /\ results = <<>>

\* lines 139-153: the sheet is read; results = []
ReadSheet ==
    /\ pc = "start"
    /\ results' = <<>>
    /\ row_i' = 1
    /\ pc' = "rows"
    /\ UNCHANGED <<docVars, net, all_filings, idxVars, appVars, file_type, df>>

\* lines 154-162: one row: resolve, append when a link came back, sleep
ResolveRow ==
    /\ pc = "rows"
    /\ row_i <= Len(df)
    /\ \E ok \in BOOLEAN :
        LET row == df[row_i]
            res == find_filing_html(row.FilingURL, file_type,
                       IF ok THEN <<SoupOf(row.FilingURL)>> ELSE <<>>)
            html_url == res.ret
        IN  /\ results' = IF html_url # None /\ html_url # <<>>
                          THEN Append(results, [name |-> row.CompanyName,
                                                ticker |-> row.Ticker,
                                                html_link |-> html_url])
                          ELSE results
            /\ net' = net \o res.reqs \o <<Sleep>>
    /\ row_i' = row_i + 1
    /\ UNCHANGED <<docVars, pc, all_filings, idxVars, appVars, file_type, df>>

\* lines 164-166: nothing resolved, return
FinishEmpty ==
    /\ pc = "rows"
    /\ row_i > Len(df)
    /\ results = <<>>
    /\ pc' = "done"
    /\ UNCHANGED <<docVars, net, all_filings, idxVars, appVars, rdrVars>>

\* lines 168-176: the results are uploaded to the sheet
FinishUpload ==
    /\ pc = "rows"
    /\ row_i > Len(df)
    /\ results # <<>>
    /\ pc' = "done"
    /\ UNCHANGED <<docVars, net, all_filings, idxVars, appVars, rdrVars>>

NextRdr == ReadSheet \/ ResolveRow \/ FinishEmpty \/ FinishUpload

SpecRdr == InitRdr /\ [][NextRdr]_vars

\* ===================================================================
\* Properties
\* ===================================================================
\* the accession identifier a row of project.py stands for: the last
\* segment of its Filing URL without the index suffix
RowAccession(row) == Remove(Last(Split(row.FilingURL, "/")), "-index.html")

\* C1: the output table holds exactly one row per distinct accession
\* identifier: no two rows of all_filings stand for the same accession.
C1_OneRowPerAccession ==
    \A i, j \in 1..Len(all_filings) :
        RowAccession(all_filings[i]) = RowAccession(all_filings[j]) => i = j

\* C4: between any two consecutive outbound requests a sleep is taken: the
\* traffic never shows two requests next to each other.
C4_DelayBetweenRequests ==
    \A i \in 1..(Len(net) - 1) :
        ~(net[i].op = "request" /\ net[i + 1].op = "request")

\* --- C6 ------------------------------------------------------------------
PipeCount(line) == Cardinality({i \in 1..Len(line) : line[i] = "|"})

IsDashed(line) == Len(line) >= 7 /\ \A i \in 1..7 : line[i] = "-"

HasSeparator(doc) == \E i \in 1..Len(doc) : IsDashed(doc[i])

\* the lines after the first dashed line
AfterSeparator(doc) ==
    LET first == CHOOSE i \in 1..Len(doc) :
                     IsDashed(doc[i]) /\ \A j \in 1..(i - 1) : ~IsDashed(doc[j])
    IN  [k \in 1..(Len(doc) - first) |-> doc[first + k]]

FiveFieldLines(doc) == SelectSeq(AfterSeparator(doc), LAMBDA l : PipeCount(l) = 4)

\* line = leading blanks, then text, then trailing blanks, and text neither
\* starts nor ends with a blank
IsTrimOf(text, line) ==
    /\ text = <<>> \/ (~IsSpace(text[1]) /\ ~IsSpace(text[Len(text)]))
    /\ \E a \in 0..Len(line) :
          /\ a + Len(text) <= Len(line)
          /\ \A i \in 1..Len(text) : line[a + i] = text[i]
          /\ \A i \in 1..Len(line) : (i <= a \/ i > a + Len(text)) => IsSpace(line[i])

\* C6 as stated: every line after the first dashed line that has exactly 5
\* pipe-delimited fields yields, in order, a record whose 5 fields are the
\* line's fields unchanged, and the other lines yield nothing.
C6_FieldsUnchanged ==
    (pc = "parsed" /\ HasSeparator(content)) =>
        LET five == FiveFieldLines(content)
        IN  /\ Len(raws) = Len(five)
            /\ \A k \in 1..Len(raws) :
                  /\ Len(raws[k]) = 5
                  /\ \A f \in 1..5 : PipeCount(raws[k][f]) = 0
                  /\ Join(raws[k], "|") = five[k]

\* C6 amended: the record carries the 5 fields of the line with the blanks
\* around the whole line removed.
C6_FieldsOfTrimmedLine ==
    (pc = "parsed" /\ HasSeparator(content)) =>
        LET five == FiveFieldLines(content)
        IN  /\ Len(raws) = Len(five)
            /\ \A k \in 1..Len(raws) :
                  /\ Len(raws[k]) = 5
                  /\ \A f \in 1..5 : PipeCount(raws[k][f]) = 0
                  /\ IsTrimOf(Join(raws[k], "|"), five[k])

\* a malformed line between two well-formed ones, one of them padded
C6_Witness ==
    /\ pc = "parsed"
    /\ content = <<SepLine, Line10K, Line4Fields, LinePadded>>
    /\ Len(raws) = 2

\* --- C7 ------------------------------------------------------------------
\* raw, in upper case, begins with sel, in upper case
PrefixMatch(raw, sel) ==
    \E n \in 0..Len(raw) : [i \in 1..n |-> UpperChar(raw[i])] = Upper(sel)

\* the rows are those of the records in kept, in order
RowsAreOf(kept) ==
    /\ Len(all_filings) = Len(kept)
    /\ \A k \in 1..Len(kept) :
          /\ Upper(all_filings[k].FormType) = Upper(Strip(kept[k][3]))
          /\ all_filings[k].CompanyName = kept[k][2]

\* C7 as stated: a raw record is kept iff its form-type string, upper-cased,
\* starts with the upper-cased selection entry.
C7_KeptIffPrefix ==
    pc = "parsed" =>
        RowsAreOf(SelectSeq(raws, LAMBDA r : PrefixMatch(r[3], filing_type)))

\* C7 amended: the form-type string is compared with its surrounding blanks
\* removed.
C7_KeptIffTrimmedPrefix ==
    pc = "parsed" =>
        RowsAreOf(SelectSeq(raws, LAMBDA r : PrefixMatch(Strip(r[3]), filing_type)))

\* "10-K405" kept, "NT 10-K" dropped, a padded lower-case "10-k" kept
C7_Witness ==
    /\ pc = "parsed"
    /\ filing_type = T10K
    /\ content = <<SepLine, LineCoFiler, LineNT, LinePadded>>
    /\ Len(raws) = 3
    /\ Len(all_filings) = 2

\* --- C2 ------------------------------------------------------------------
\* the metadata requests made for one filer identifier
FetchCount(cik) ==
    Cardinality({i \in 1..Len(net) :
                    net[i].op = "request" /\ net[i].what = "submissions"
                        /\ net[i].n = cik})

\* C2: within one run get_company_details issues at most one network fetch
\* per distinct filer identifier, whatever the outcome of the fetch.
C2_OneFetchPerFiler ==
    \A cik \in {Cik1, Cik2, Cik3} : FetchCount(cik) <= 1

\* --- C3 ------------------------------------------------------------------
\* C3: a filing whose document cannot be resolved is still emitted: when
\* p_r has gone through the sheet, every row of the sheet has its entry in
\* results.
C3_UnresolvedStillEmitted ==
    pc = "done" => Len(results) = Len(df)

\* --- C5 ------------------------------------------------------------------
IsSearch(e, p) == e.op = "request" /\ e.what = "search" /\ e.n = p

\* C5: a failed page fetch skips that page only: once the run is over, every
\* failed search of a page below the last is followed by the search of the
\* next page.
C5_LaterPagesStillRequested ==
    pc = "done" =>
        \A i \in 1..Len(net) :
            (net[i].op = "request" /\ net[i].what = "search" /\ ~net[i].ok
                /\ net[i].n < MaxPages)
            => \E j \in (i + 1)..Len(net) : IsSearch(net[j], net[i].n + 1)

\* --- C8 ------------------------------------------------------------------
\* a recognized code becomes the state's name, any other code is kept
MappedOrKept(code) ==
    IF code \in DOMAIN STATE_ABBREV THEN STATE_ABBREV[code] ELSE code

\* C8: the details get_company_details returns for a fetched JSON carry the
\* business-location code and the incorporation code mapped through the
\* table, an unrecognized code unchanged.
C8_CodesMappedOrKept ==
    (last_data # <<>> /\ ~DetailsRaise(last_data[1])) =>
        LET json == last_data[1]
        IN  /\ details.location =
                   json.city \o <<",", " ">> \o MappedOrKept(json.stateOrCountry)
            /\ details.incorporated = MappedOrKept(IncorporatedOf(json))

\* --- C9 ------------------------------------------------------------------
\* C9: no name is listed twice (case-insensitively) for one filing key: two
\* rows of the same filing never carry the same entity name.
C9_NoDuplicateNames ==
    \A i, j \in 1..Len(all_filings) :
        (i # j /\ all_filings[i].Filing = all_filings[j].Filing)
        => Upper(all_filings[i].FilingEntity) # Upper(all_filings[j].FilingEntity)

\* --- C10 -----------------------------------------------------------------
\* C10: a client exists only for a non-empty identifying name and contact,
\* and no request leaves with a blank User-Agent.
C10_IdentityRequired ==
    /\ pc \in {"page", "hits", "done"} => (user.full_name # <<>> /\ user.email # <<>>)
    /\ \A i \in 1..Len(net) : net[i].op = "request" => Strip(net[i].ua) # <<>>

\* --- C11 -----------------------------------------------------------------
\* C11: every row of the output table has a non-empty form type and a
\* non-empty filed date.
C11_FormAndDateNonEmpty ==
    \A i \in 1..Len(all_filings) :
        /\ all_filings[i].FormType # <<>>
        /\ all_filings[i].DateFiled # <<>>

\* --- C12 -----------------------------------------------------------------
\* C12: no operation blocks indefinitely: every request is issued with a
\* timeout, and no run is left waiting for an answer.
C12_NoCallBlocks ==
    /\ pc # "blocked"
    /\ \A i \in 1..Len(net) :
          net[i].op = "request" => TimeoutOf(net[i].what) > 0

\* --- C13 -----------------------------------------------------------------
\* C13: with detail display disabled, get_company_details returns the
\* all-empty details on every call, makes no request and leaves the cache
\* as it was: the cache stays empty, no metadata request is in the traffic,
\* and every row carries an empty location and incorporation.
C13_DisabledDetailsAreEmpty ==
    ~show_details =>
        /\ company_cache = <<>>
        /\ details = EmptyDetails
        /\ last_data = <<>>
        /\ \A i \in 1..Len(net) :
              ~(net[i].op = "request" /\ net[i].what = "submissions")
        /\ \A i \in 1..Len(all_filings) :
              /\ all_filings[i].Located = <<>>
              /\ all_filings[i].Incorporated = <<>>

\* detail display is off and the resolver was called twice for one filer
\* and once for another
C13_Witness ==
    /\ ~show_details
    /\ Len(all_filings) = 3
    /\ all_filings[1].CIK = Cik1
    /\ all_filings[2].CIK = Cik1
    /\ all_filings[3].CIK = Cik2

\* --- C14 -----------------------------------------------------------------
\* the document rows of the served page whose declared type equals the
\* form type asked for, case-insensitively
ExactRows ==
    {i \in 2..Len(served_rows) : Upper(served_rows[i].doctype) = Upper(wanted)}

\* the resolver read the page
PageWasRead == pc = "resolved" /\ net # <<>> /\ net[Len(net)].ok

\* C14: whenever the document table has a row of exactly the target type,
\* the resolver returns the link of such a row, whatever the order and the
\* sizes of the rows.
C14_ExactRowPreferred ==
    (PageWasRead /\ ExactRows # {}) =>
        \E i \in ExactRows : EndsWith(resolved, served_rows[i].href)

\* --- C15 -----------------------------------------------------------------
\* the size a row reports, in tenths of a byte
ReportedSize(row) ==
    IF row.size = <<>> THEN 0
    ELSE NumberValue(row.size[1])
            * (IF Contains(row.size, "KB") THEN 1024
               ELSE IF Contains(row.size, "MB") THEN 1024 * 1024
               ELSE 1)

\* C15: among the rows of exactly the target type, the resolver returns the
\* one that reports the largest size in bytes, in any row order (when one of
\* them reports a size at all).
C15_LargestExactRow ==
    (PageWasRead /\ \E k \in ExactRows : ReportedSize(served_rows[k]) > 0) =>
        \E i \in ExactRows :
            /\ EndsWith(resolved, served_rows[i].href)
            /\ \A j \in ExactRows :
                  ReportedSize(served_rows[j]) <= ReportedSize(served_rows[i])

\* --- C16 -----------------------------------------------------------------
\* the requests of one kind, in the order they were made
RequestsOf(traffic, what) ==
    SelectSeq(traffic, LAMBDA e : e.op = "request" /\ e.what = what)

\* the k-th request of the kind is for day (page) k
Ascending(traffic, what) ==
    \A k \in 1..Len(RequestsOf(traffic, what)) : RequestsOf(traffic, what)[k].n = k

\* the rows a step has added at the end of the table
Appended == SubSeq(all_filings', Len(all_filings) + 1, Len(all_filings'))

\* the earlier rows stay where they were
KeepsEarlierRows ==
    /\ Len(all_filings') >= Len(all_filings)
    /\ SubSeq(all_filings', 1, Len(all_filings)) = all_filings

\* the rows are those of the records, one for one and in the same order
SameOrder(rows, records) ==
    /\ Len(rows) = Len(records)
    /\ \A k \in 1..Len(records) :
          /\ rows[k].CIK = Strip(records[k][1])
          /\ rows[k].FormType = Strip(records[k][3])
          /\ RowAccession(rows[k]) = AccessionOfPath(Strip(records[k][5]))

\* a step of the day loop adds the rows of the day's accepted lines, in line
\* order, after the rows of the earlier days
DayStepInOrder ==
    /\ KeepsEarlierRows
    /\ IF day' # day /\ day > 0
       THEN SameOrder(Appended,
                SelectSeq(raws', LAMBDA r : PrefixMatch(Strip(r[3]), filing_type)))
       ELSE Appended = <<>>

\* a step of the page loop adds at most the row of the first hit not yet
\* processed, after the rows of the earlier hits and pages
PageStepInOrder ==
    /\ KeepsEarlierRows
    /\ IF hits # <<>> /\ hits' = Tail(hits)
       THEN \/ Appended = <<>>
            \/ /\ Len(Appended) = 1
               /\ Appended[1].CIK = Head(hits).ciks[1]
               /\ Appended[1].Form = JsonGet(Head(hits), "form", <<"N/A">>)
       ELSE Appended = <<>>

\* C16: days are fetched in ascending order, each exactly once by the end of
\* the run; pages are requested in ascending order from 1, each at most
\* once; and every step adds its rows in source order behind the rows of
\* the earlier days and pages.
C16_SequentialAndOrdered ==
    [][/\ Ascending(net', "index")
       /\ Ascending(net', "search")
       /\ (pc' = "done" /\ ndays > 0) => Len(RequestsOf(net', "index")) = ndays
       /\ IF ndays > 0 THEN DayStepInOrder ELSE PageStepInOrder]_vars

\* a two-day run: two rows from the first day's index, in line order, then
\* one from the second day's
C16_Witness ==
    /\ pc = "done"
    /\ ndays = 2
    /\ Len(RequestsOf(net, "index")) = 2
    /\ Len(all_filings) = 3
    /\ all_filings[1].CIK = Cik1
    /\ all_filings[2].CIK = Cik2
    /\ all_filings[3].FormType = <<"1", "0", "-", "k">>

\* --- C17 -----------------------------------------------------------------
\* a link of the index page as an absolute address: an absolute link as it
\* is, a root-relative one under the registry's host, any other under the
\* index address up to and including its last "/"
ResolvedAgainst(index_url, href) ==
    IF StartsWithHttp(href) THEN href
    ELSE IF href # <<>> /\ href[1] = "/" THEN <<"https://www.sec.gov">> \o href
    ELSE SubSeq(index_url, 1, RFindEnd(index_url, "/")) \o href

\* C17: a document address the resolver returns is absolute and is a link
\* of the page resolved against the index page's address.
C17_ResolvedAgainstIndexPage ==
    (PageWasRead /\ resolved # None) =>
        /\ StartsWithHttp(resolved)
        /\ \E k \in 1..Len(served_links) :
              resolved = ResolvedAgainst(IndexUrl, served_links[k].href)

\* --- C18 -----------------------------------------------------------------
\* the link's href or text contains the form type asked for
LinkMatches(link) ==
    \/ IsInfix(Lower(wanted), Lower(link.href))
    \/ IsInfix(Upper(wanted), Upper(link.text))

IsHtmlLink(url) == EndsWith(url, <<".htm">>) \/ EndsWith(url, <<".html">>)

\* C18: when a matching link of the page ends in .htm/.html, the loose link
\* scan returns an HTML link, wherever that link stands on the page.
C18_HtmlLinkPreferred ==
    (PageWasRead
        /\ \E k \in 1..Len(served_links) :
              LinkMatches(served_links[k]) /\ IsHtmlLink(served_links[k].href))
    => IsHtmlLink(resolved)

====
